---- MODULE Spec2Model ----
(***************************************************************************)
(* A model of the MarkdownEditor application:                              *)
(*   - the markdown insertion helpers (utils/markdownHelpers): pure        *)
(*     functions from (text, selection) to (newText, newSelection);        *)
(*   - the WebStorageManager of utils/fileHelpers.ts: the virtual file     *)
(*     system kept in two Maps and persisted under two AsyncStorage keys.  *)
(*                                                                         *)
(* A JavaScript string is modelled as the sequence of its UTF-16 code      *)
(* units, each code unit being a one-token TLA+ string ("a", "#", "\n",    *)
(* "U30C6" for the code unit U+30C6).  String lengths, substring and       *)
(* concatenation are therefore those of the code.                          *)
(***************************************************************************)
EXTENDS Integers, Sequences, FiniteSets, TLC

VARIABLES
    text,          \* EditorScreen: content, the live text buffer
    selection,     \* EditorScreen: selection {start, end}
    call,          \* the last call of an insertion helper: its arguments, its
                   \* result, and the call before it
    files,         \* WebStorageManager.files   (Map, in insertion order)
    folders,       \* WebStorageManager.folders (Map, in insertion order)
    initialized,   \* WebStorageManager.initialized
    filesItem,     \* AsyncStorage item under FILES_KEY   (Null or its JSON value)
    foldersItem,   \* AsyncStorage item under FOLDERS_KEY (Null or its JSON value)
    now,           \* the value Date.now() returns
    last,          \* the last adapter operation, with its arguments and outcome
    prev,          \* the operation that last, a readFile, directly follows
    tasks,         \* the adapter operations in progress, each at one of its awaits
    seen,          \* history: writes that returned, storage accesses that failed
    editor,        \* EditorScreen: its other state, the backend and the calls in flight
    explorer       \* FileExplorer: folderContents, the closures and loads in flight

engineVars == <<text, selection, call>>
storeVars == <<files, folders, initialized, filesItem, foldersItem, now, last, prev>>
vars == <<text, selection, call, files, folders, initialized, filesItem,
          foldersItem, now, last, prev, tasks, seen, editor, explorer>>

(***************************************************************************)
(* Bounds of the model.                                                    *)
(***************************************************************************)
MaxLen == 3          \* longest text drawn as an input of the helpers
MaxClock == 1        \* largest value of Date.now()
MaxCalls == 3        \* most adapter operations called in one run of the page

Min(a, b) == IF a < b THEN a ELSE b
Max(a, b) == IF a > b THEN a ELSE b

(***************************************************************************)
(* JavaScript string primitives.                                           *)
(***************************************************************************)
Clamp(n, len) == Min(Max(n, 0), len)

\* String.prototype.substring(a, b): both indices are clamped to
\* [0, length] and swapped when a > b.
Substring(s, a, b) ==
    LET ca == Clamp(a, Len(s))
        cb == Clamp(b, Len(s))
    IN  SubSeq(s, Min(ca, cb) + 1, Max(ca, cb))

\* String.prototype.substring(a): from a to the end.
SubstringFrom(s, a) == SubSeq(s, Clamp(a, Len(s)) + 1, Len(s))

\* String.prototype.repeat for the one-character string c.
RECURSIVE Repeat(_, _)
Repeat(c, n) == IF n <= 0 THEN <<>> ELSE <<c>> \o Repeat(c, n - 1)

\* String.prototype.includes for a one-character needle.
Includes(s, c) == \E i \in 1..Len(s) : s[i] = c

\* The index of the first c in s, or 0.
RECURSIVE IndexOf(_, _, _)
IndexOf(s, c, i) ==
    IF i > Len(s) THEN 0
    ELSE IF s[i] = c THEN i
    ELSE IndexOf(s, c, i + 1)

\* String.prototype.split('\n'): the empty string splits into one empty line.
RECURSIVE SplitLines(_)
SplitLines(s) ==
    LET i == IndexOf(s, "\n", 1)
    IN  IF i = 0 THEN <<s>>
        ELSE <<SubSeq(s, 1, i - 1)>> \o SplitLines(SubSeq(s, i + 1, Len(s)))

\* Array.prototype.join('\n').
RECURSIVE JoinLines(_)
JoinLines(lines) ==
    IF Len(lines) = 0 THEN <<>>
    ELSE IF Len(lines) = 1 THEN lines[1]
    ELSE lines[1] \o <<"\n">> \o JoinLines(Tail(lines))

\* The characters the regular expression class \s matches (those the model uses).
Whitespace == {" ", "\t", "\n", "\r"}

\* LeadingHashes as /^#/ would have it: one '#' only is consumed.
LeadingHashesOne(line, n) ==
    IF n < 1 /\ n < Len(line) /\ line[n + 1] = "#" THEN n + 1 ELSE n

\* The number of '#' the greedy #{1,6} consumes at the start of line.
RECURSIVE LeadingHashes(_, _)
LeadingHashes(line, n) ==
    IF n < 6 /\ n < Len(line) /\ line[n + 1] = "#"
    THEN LeadingHashes(line, n + 1)
    ELSE n

\* The number of characters the greedy \s* consumes from position n + 1 on.
RECURSIVE LeadingSpaces(_, _)
LeadingSpaces(line, n) ==
    IF n < Len(line) /\ line[n + 1] \in Whitespace
    THEN LeadingSpaces(line, n + 1)
    ELSE n

\* StripHeading as /^#{1,6}/ would have it: the whitespace stays.
StripHeadingKeepSpace(line) ==
    SubSeq(line, LeadingHashes(line, 0) + 1, Len(line))

\* currentLine.replace(/^#{1,6}\s*/, ''): without a leading '#' nothing matches.
StripHeading(line) ==
    LET h == LeadingHashes(line, 0)
    IN  IF h = 0 THEN line
        ELSE SubSeq(line, LeadingSpaces(line, h) + 1, Len(line))

(***************************************************************************)
(* The markdown insertion helpers.                                         *)
(***************************************************************************)
Sel(s, e) == [start |-> s, end |-> e]

\* The placeholders of the helpers, code unit by code unit.
PhText == <<"U30C6", "U30AD", "U30B9", "U30C8">>            \* 'テキスト'
PhListItem == <<"U30EA", "U30B9", "U30C8", "U9805", "U76EE">> \* 'リスト項目'
PhCode == <<"U30B3", "U30FC", "U30C9">>                     \* 'コード'
PhQuote == <<"U5F15", "U7528", "U30C6", "U30AD", "U30B9", "U30C8">> \* '引用テキスト'
PhTask == <<"U30BF", "U30B9", "U30AF">>                     \* 'タスク'
PhLinkText == <<"U30EA", "U30F3", "U30AF", "U30C6", "U30AD", "U30B9", "U30C8">> \* 'リンクテキスト'
PhUrl == <<"U", "R", "L">>                                  \* 'URL'

\* The backtick character (U+0060).
BT == "U0060"

\* insertMarkdown with afterSelection cut at selection.start.
insertMarkdownKeepSelection(t, sel, prefix, suffix, placeholder) ==
    LET beforeSelection == Substring(t, 0, sel.start)
        selectedText == Substring(t, sel.start, sel.end)
        afterSelection == SubstringFrom(t, sel.start)
        insertText == IF selectedText # <<>> THEN selectedText ELSE placeholder
        newText == beforeSelection \o prefix \o insertText \o suffix \o afterSelection
        newCursorPos == sel.start + Len(prefix) + Len(insertText) + Len(suffix)
    IN  [newText |-> newText, newSelection |-> Sel(newCursorPos, newCursorPos)]

\* insertMarkdown with the caret left in front of the suffix.
insertMarkdownCaretInside(t, sel, prefix, suffix, placeholder) ==
    LET beforeSelection == Substring(t, 0, sel.start)
        selectedText == Substring(t, sel.start, sel.end)
        afterSelection == SubstringFrom(t, sel.end)
        insertText == IF selectedText # <<>> THEN selectedText ELSE placeholder
        newText == beforeSelection \o prefix \o insertText \o suffix \o afterSelection
        newCursorPos == sel.start + Len(prefix) + Len(insertText)
    IN  [newText |-> newText, newSelection |-> Sel(newCursorPos, newCursorPos)]

\* insertMarkdown with the placeholder inserted in front of a selection too.
insertMarkdownAlwaysPlaceholder(t, sel, prefix, suffix, placeholder) ==
    LET beforeSelection == Substring(t, 0, sel.start)
        selectedText == Substring(t, sel.start, sel.end)
        afterSelection == SubstringFrom(t, sel.end)
        insertText == placeholder \o selectedText
        newText == beforeSelection \o prefix \o insertText \o suffix \o afterSelection
        newCursorPos == sel.start + Len(prefix) + Len(insertText) + Len(suffix)
    IN  [newText |-> newText, newSelection |-> Sel(newCursorPos, newCursorPos)]

insertMarkdown(t, sel, prefix, suffix, placeholder) ==
    LET beforeSelection == Substring(t, 0, sel.start)
        selectedText == Substring(t, sel.start, sel.end)
        afterSelection == SubstringFrom(t, sel.end)
        insertText == IF selectedText # <<>> THEN selectedText ELSE placeholder
        newText == beforeSelection \o prefix \o insertText \o suffix \o afterSelection
        newCursorPos == sel.start + Len(prefix) + Len(insertText) + Len(suffix)
    IN  [newText |-> newText, newSelection |-> Sel(newCursorPos, newCursorPos)]

\* FindLine with > for >=: an offset at the end of a line goes to the next line.
RECURSIVE FindLineStrict(_, _, _, _)
FindLineStrict(lines, i, charCount, start) ==
    IF i > Len(lines) THEN [targetLineIndex |-> 1, charCount |-> charCount]
    ELSE IF charCount + Len(lines[i]) > start
         THEN [targetLineIndex |-> i, charCount |-> charCount]
    ELSE FindLineStrict(lines, i + 1, charCount + Len(lines[i]) + 1, start)

\* The loop of insertHeading that finds the current line: i is the 1-based
\* index of the line looked at, charCount the offset of its first character.
\* When no line is found, targetLineIndex keeps its initial value (line 1).
RECURSIVE FindLine(_, _, _, _)
FindLine(lines, i, charCount, start) ==
    IF i > Len(lines) THEN [targetLineIndex |-> 1, charCount |-> charCount]
    ELSE IF charCount + Len(lines[i]) >= start
         THEN [targetLineIndex |-> i, charCount |-> charCount]
    ELSE FindLine(lines, i + 1, charCount + Len(lines[i]) + 1, start)

insertHeading(t, sel, level) ==
    LET prefix == Repeat("#", level) \o <<" ">>
        lines == SplitLines(t)
        found == FindLine(lines, 1, 0, sel.start)
        currentLine == lines[found.targetLineIndex]
        cleanLine == StripHeading(currentLine)
        newLines == [lines EXCEPT ![found.targetLineIndex] = prefix \o cleanLine]
        newText == JoinLines(newLines)
        newPos == found.charCount + Len(prefix) + Len(cleanLine)
    IN  [newText |-> newText, newSelection |-> Sel(newPos, newPos)]

\* insertBold with the single asterisks of insertItalic.
insertBoldSingle(t, sel) == insertMarkdown(t, sel, <<"*">>, <<"*">>, PhText)

insertBold(t, sel) == insertMarkdown(t, sel, <<"*", "*">>, <<"*", "*">>, PhText)

insertItalic(t, sel) == insertMarkdown(t, sel, <<"*">>, <<"*">>, PhText)

insertHorizontalRule(t, sel) ==
    insertMarkdown(t, sel, <<"\n", "-", "-", "-", "\n">>, <<>>, <<>>)

insertBulletList(t, sel) == insertMarkdown(t, sel, <<"-", " ">>, <<>>, PhListItem)

insertNumberedList(t, sel) ==
    insertMarkdown(t, sel, <<"1", ".", " ">>, <<>>, PhListItem)

\* insertCodeBlock without the test for the empty selection.
insertCodeBlockNoEmptyTest(t, sel) ==
    LET selectedText == Substring(t, sel.start, sel.end)
    IN  IF Includes(selectedText, "\n")
        THEN insertMarkdown(t, sel, <<BT, BT, BT, "\n">>, <<"\n", BT, BT, BT>>, PhCode)
        ELSE insertMarkdown(t, sel, <<BT>>, <<BT>>, PhCode)

insertCodeBlock(t, sel) ==
    LET selectedText == Substring(t, sel.start, sel.end)
    IN  IF Includes(selectedText, "\n") \/ selectedText = <<>>
        THEN insertMarkdown(t, sel, <<BT, BT, BT, "\n">>, <<"\n", BT, BT, BT>>, PhCode)
        ELSE insertMarkdown(t, sel, <<BT>>, <<BT>>, PhCode)

insertQuote(t, sel) == insertMarkdown(t, sel, <<">", " ">>, <<>>, PhQuote)

\* insertLink that always inserts the template.
insertLinkAlwaysTemplate(t, sel) ==
    insertMarkdown(t, sel, <<"[">> \o PhLinkText \o <<"]", "(">>, <<")">>, PhUrl)

insertLink(t, sel) ==
    LET selectedText == Substring(t, sel.start, sel.end)
    IN  IF selectedText # <<>>
        THEN insertMarkdown(t, sel, <<"[">>, <<"]", "(", "U", "R", "L", ")">>, <<>>)
        ELSE insertMarkdown(t, sel, <<"[">> \o PhLinkText \o <<"]", "(">>, <<")">>, PhUrl)

insertCheckbox(t, sel) ==
    insertMarkdown(t, sel, <<"-", " ", "[", " ", "]", " ">>, <<>>, PhTask)

(***************************************************************************)
(* The insertion helpers at work: the editor keeps the buffer and the      *)
(* selection, a toolbar action calls one helper on them and stores the     *)
(* result back (EditorScreen.handleToolbarAction).                         *)
(***************************************************************************)
Alphabet == {"a", "#", " ", "\n"}

HelloWorld == <<"H", "e", "l", "l", "o", " ", "w", "o", "r", "l", "d">>
SevenHashes == <<"#", "#", "#", "#", "#", "#", "#", "a">>

\* The texts the helpers are given at the start.
InputTexts ==
    UNION {[1..n -> Alphabet] : n \in 0..MaxLen} \cup {HelloWorld, SevenHashes}

\* The selections over t with 0 <= start <= end <= length.
Selections(t) ==
    {x \in [start : 0..Len(t), end : 0..Len(t)] : x.start <= x.end}

\* The arguments the generic insertMarkdown is called with.
Prefixes == {<<>>, <<"*">>, <<"a", "\n">>}
Suffixes == {<<>>, <<"*">>}
Placeholders == {<<>>, <<"p">>, <<"p", "q">>}
Levels == 1..6

NoResult == [newText |-> <<>>, newSelection |-> Sel(0, 0)]

\* Whether the /^#{1,6}\s*/ of insertHeading matches the current line.
headingMatched(t, sel) ==
    LET lines == SplitLines(t)
        found == FindLine(lines, 1, 0, sel.start)
    IN  LeadingHashes(lines[found.targetLineIndex], 0) > 0

\* What a call keeps of the call before it: the helper, the level and, of an
\* insertHeading, whether it found a heading marker on its line.
NoBefore == [op |-> "none", level |-> 0, matched |-> FALSE]
Before(c) ==
    [op |-> c.op, level |-> c.level,
     matched |-> IF c.op = "insertHeading" THEN headingMatched(c.text, c.selection)
                 ELSE FALSE]

NoCall == [op |-> "none", text |-> <<>>, selection |-> Sel(0, 0), level |-> 0,
           prefix |-> <<>>, suffix |-> <<>>, placeholder |-> <<>>,
           result |-> NoResult, before |-> NoBefore]

\* A toolbar action: the helper's result replaces the buffer and the selection.
Apply(op, level, prefix, suffix, placeholder, result) ==
    /\ call' = [op |-> op, text |-> text, selection |-> selection, level |-> level,
                prefix |-> prefix, suffix |-> suffix, placeholder |-> placeholder,
                result |-> result, before |-> Before(call)]
    /\ text' = result.newText
    /\ selection' = result.newSelection
    /\ UNCHANGED <<storeVars, tasks, seen, editor, explorer>>

Wrap ==
    /\ text \in InputTexts
    /\ \E prefix \in Prefixes, suffix \in Suffixes, placeholder \in Placeholders :
          Apply("insertMarkdown", 0, prefix, suffix, placeholder,
                insertMarkdown(text, selection, prefix, suffix, placeholder))

\* A heading button is pressed on a starting buffer, or again on the buffer a
\* heading button left.
Heading ==
    /\ text \in InputTexts \/ call.op = "insertHeading"
    /\ \E level \in Levels :
          Apply("insertHeading", level, <<>>, <<>>, <<>>,
                insertHeading(text, selection, level))

Named(op, result) ==
    /\ text \in InputTexts
    /\ Apply(op, 0, <<>>, <<>>, <<>>, result)

Bold == Named("insertBold", insertBold(text, selection))
Italic == Named("insertItalic", insertItalic(text, selection))
HorizontalRule == Named("insertHorizontalRule", insertHorizontalRule(text, selection))
BulletList == Named("insertBulletList", insertBulletList(text, selection))
NumberedList == Named("insertNumberedList", insertNumberedList(text, selection))
CodeBlock == Named("insertCodeBlock", insertCodeBlock(text, selection))
Quote == Named("insertQuote", insertQuote(text, selection))
Link == Named("insertLink", insertLink(text, selection))
Checkbox == Named("insertCheckbox", insertCheckbox(text, selection))

EngineIdle == text = <<>> /\ selection = Sel(0, 0) /\ call = NoCall

(***************************************************************************)
(* WebStorageManager: the virtual file system of the web backend.          *)
(*                                                                         *)
(* Addresses, file names and folder ids are strings cut into tokens:       *)
(* "web://" and "file/" are one token each, a file name or a folder id is  *)
(* the rest.  'web://file/a.md' is <<"web://", "file/", "a.md">>.          *)
(***************************************************************************)
Root == <<"root">>                      \* the folder id 'root'
Null == <<"null">>                      \* the JavaScript null of parentId
RootName == <<"U30DE", "U30A4", "U30C9", "U30AD", "U30E5", "U30E1", "U30F3", "U30C8">>

\* The first position at which pat occurs in s, or 0.
RECURSIVE Find(_, _, _)
Find(s, pat, i) ==
    IF i + Len(pat) - 1 > Len(s) THEN 0
    ELSE IF SubSeq(s, i, i + Len(pat) - 1) = pat THEN i
    ELSE Find(s, pat, i + 1)

\* A replace that finds nothing to remove.
RemoveNothing(s, pat) == s

\* String.prototype.replace(pat, ''): removes the first occurrence of pat.
Remove(s, pat) ==
    LET i == Find(s, pat, 1)
    IN  IF i = 0 THEN s
        ELSE SubSeq(s, 1, i - 1) \o SubSeq(s, i + Len(pat), Len(s))

FilePrefix == <<"web://", "file/">>     \* 'web://file/'
FolderPrefix == <<"web://">>            \* 'web://'
FileUri(name) == FilePrefix \o name     \* `web://file/${name}`
FolderUri(id) == FolderPrefix \o id     \* `web://${id}`

\* A JavaScript Map: the keys in insertion order and the value of each key.
EmptyMap == [order |-> <<>>, at |-> [k \in {} |-> k]]
MapHas(m, k) == k \in DOMAIN m.at
MapGet(m, k) == m.at[k]
MapSet(m, k, v) ==
    [order |-> IF MapHas(m, k) THEN m.order ELSE Append(m.order, k),
     at |-> [x \in (DOMAIN m.at) \cup {k} |-> IF x = k THEN v ELSE m.at[x]]]
MapDelete(m, k) ==
    [order |-> SelectSeq(m.order, LAMBDA x : x # k),
     at |-> [x \in (DOMAIN m.at) \ {k} |-> m.at[x]]]
\* Array.from(map.values())
MapValues(m) == [i \in 1..Len(m.order) |-> m.at[m.order[i]]]
\* [...map]: the array of [key, value] pairs
MapEntries(m) == [i \in 1..Len(m.order) |-> <<m.order[i], m.at[m.order[i]]>>]
\* new Map(entries): a later pair of the same key replaces the value, not the place
RECURSIVE MapFromEntries(_, _)
MapFromEntries(entries, m) ==
    IF entries = <<>> THEN m
    ELSE MapFromEntries(Tail(entries), MapSet(m, Head(entries)[1], Head(entries)[2]))

\* An AsyncStorage item: getItem gives null for a key never set, else the
\* string setItem stored; the string here is JSON.stringify of an array of
\* pairs, kept as that array.
NoItem == [present |-> FALSE, entries |-> <<>>]
JsonItem(entries) == [present |-> TRUE, entries |-> entries]

\* The adapter's fields and the two storage items, as one value.
Cur == [files |-> files, folders |-> folders, initialized |-> initialized,
        filesItem |-> filesItem, foldersItem |-> foldersItem]

\* save that writes the file record alone.
saveFilesOnly(S) == [S EXCEPT !.filesItem = JsonItem(MapEntries(S.files))]

\* save(): both Maps are written, files first.
save(S) ==
    [S EXCEPT !.filesItem = JsonItem(MapEntries(S.files)),
              !.foldersItem = JsonItem(MapEntries(S.folders))]

\* initialize that makes no root folder.
initializeNoRoot(S, t) ==
    IF S.initialized THEN S
    ELSE LET S1 == IF S.filesItem.present
                   THEN [S EXCEPT !.files = MapFromEntries(S.filesItem.entries, EmptyMap)]
                   ELSE S
             S2 == IF S1.foldersItem.present
                   THEN [S1 EXCEPT !.folders = MapFromEntries(S1.foldersItem.entries, EmptyMap)]
                   ELSE S1
         IN  [S2 EXCEPT !.initialized = TRUE]

\* initialize() with working storage; t is the value of Date.now().
initialize(S, t) ==
    IF S.initialized THEN S
    ELSE LET S1 == IF S.filesItem.present
                   THEN [S EXCEPT !.files = MapFromEntries(S.filesItem.entries, EmptyMap)]
                   ELSE S
             S2 == IF S1.foldersItem.present
                   THEN [S1 EXCEPT !.folders = MapFromEntries(S1.foldersItem.entries, EmptyMap)]
                   ELSE S1
             S3 == IF ~MapHas(S2.folders, Root)
                   THEN save([S2 EXCEPT !.folders =
                            MapSet(S2.folders, Root,
                                   [id |-> Root, name |-> RootName,
                                    parentId |-> Null, createdAt |-> t])])
                   ELSE S2
         IN  [S3 EXCEPT !.initialized = TRUE]

\* a.name.localeCompare(b.name): the names of the model in collation order.
CollationOrder ==
    << <<"a.md">>, <<"A.md">>, <<"Alpha">>, <<"b.md">>, <<"d">>, <<"e">>, <<"z">>,
       RootName >>
CollationRank(name) ==
    CHOOSE i \in 1..Len(CollationOrder) : CollationOrder[i] = name
localeCompare(a, b) ==
    IF CollationRank(a) < CollationRank(b) THEN -1
    ELSE IF CollationRank(a) > CollationRank(b) THEN 1
    ELSE 0

\* A comparator that looks at the names alone.
compareEntriesByName(a, b) == localeCompare(a.name, b.name)

\* The comparator of getDirectoryContents.
compareEntries(a, b) ==
    IF a.isDirectory /\ ~b.isDirectory THEN -1
    ELSE IF ~a.isDirectory /\ b.isDirectory THEN 1
    ELSE localeCompare(a.name, b.name)

\* Array.prototype.sort is stable: x goes behind every element that does
\* not compare greater than it.
RECURSIVE InsertSorted(_, _)
InsertSorted(sorted, x) ==
    IF sorted = <<>> THEN <<x>>
    ELSE IF compareEntries(Head(sorted), x) <= 0
         THEN <<Head(sorted)>> \o InsertSorted(Tail(sorted), x)
    ELSE <<x>> \o sorted

RECURSIVE SortEntries(_, _)
SortEntries(list, sorted) ==
    IF list = <<>> THEN sorted
    ELSE SortEntries(Tail(list), InsertSorted(sorted, Head(list)))

\* directoryContents that lists the files of every folder.
directoryContentsFlat(S, folderUri) ==
    LET folderId == Remove(folderUri, FolderPrefix)
        subfolders ==
            LET kept == SelectSeq(MapValues(S.folders), LAMBDA f : f.parentId = folderId)
            IN  [i \in 1..Len(kept) |->
                    [name |-> kept[i].name, uri |-> FolderUri(kept[i].id),
                     isDirectory |-> TRUE, modificationTime |-> kept[i].createdAt]]
        fileEntries ==
            LET kept == MapValues(S.files)
            IN  [i \in 1..Len(kept) |->
                    [name |-> kept[i].name, uri |-> FileUri(kept[i].name),
                     isDirectory |-> FALSE, size |-> Len(kept[i].content),
                     modificationTime |-> kept[i].modifiedAt]]
    IN  SortEntries(subfolders \o fileEntries, <<>>)

\* getDirectoryContents after initialize, on the adapter state S.
directoryContents(S, folderUri) ==
    LET folderId == Remove(folderUri, FolderPrefix)
        subfolders ==
            LET kept == SelectSeq(MapValues(S.folders), LAMBDA f : f.parentId = folderId)
            IN  [i \in 1..Len(kept) |->
                    [name |-> kept[i].name, uri |-> FolderUri(kept[i].id),
                     isDirectory |-> TRUE, modificationTime |-> kept[i].createdAt]]
        fileEntries ==
            LET kept == SelectSeq(MapValues(S.files), LAMBDA f : f.folderId = folderId)
            IN  [i \in 1..Len(kept) |->
                    [name |-> kept[i].name, uri |-> FileUri(kept[i].name),
                     isDirectory |-> FALSE, size |-> Len(kept[i].content),
                     modificationTime |-> kept[i].modifiedAt]]
    IN  SortEntries(subfolders \o fileEntries, <<>>)

(***************************************************************************)
(* The adapter operations, one action each: initialize, the operation's    *)
(* own work and save.  Storage works and operations do not overlap.        *)
(***************************************************************************)
Names == {<<"a.md">>, <<"b.md">>}
Contents == {<<>>, <<"x">>}
FolderNames == {<<"d">>}
FolderId(t) == <<"folder_", ToString(t)>>        \* `folder_${Date.now()}`
\* The addresses given as file address: one the adapter issues, and a bare
\* name, in which there is no 'web://file/' to remove.
FileAddrs == {FileUri(<<"a.md">>), <<"b.md">>}
\* The folder ids given to createFile, and the parent ids given to createFolder.
FolderIds == {Root, FolderId(1)}
ParentIds == {Root, <<"nowhere">>}
DirAddrs == {FolderUri(id) : id \in FolderIds \cup ParentIds}
\* The names of the folder tree: two files and two folders whose names differ
\* in case, and the addresses listed.
TreeFileNames == {<<"b.md">>, <<"A.md">>}
TreeFolderNames == {<<"z">>, <<"Alpha">>}
TreeAddrs == {FolderUri(id) : id \in ParentIds}

NoOp == [op |-> "none", uri |-> <<>>, content |-> <<>>, folderId |-> <<>>,
         name |-> <<>>, existed |-> FALSE, status |-> "ok",
         retContent |-> <<>>, retUri |-> <<>>, retList |-> <<>>]

\* prev is kept for a readFile only: the operation it directly follows, with
\* the arguments of that operation when it is a writeFile, a createFile or a
\* deleteFile; uri is the address it was given or, of createFile, returned.
NoPrev == [op |-> "none", uri |-> <<>>, content |-> <<>>, existed |-> FALSE]
Brief(r, next) ==
    IF next.op = "readFile" /\ r.op \in {"writeFile", "deleteFile"}
    THEN [op |-> r.op, uri |-> r.uri, content |-> r.content, existed |-> r.existed]
    ELSE IF next.op = "readFile" /\ r.op = "createFile"
    THEN [op |-> r.op, uri |-> r.retUri, content |-> r.content, existed |-> r.existed]
    ELSE NoPrev

Commit(S, t, r) ==
    /\ files' = S.files
    /\ folders' = S.folders
    /\ initialized' = S.initialized
    /\ filesItem' = S.filesItem
    /\ foldersItem' = S.foldersItem
    /\ now' = t
    /\ prev' = Brief(last, r)
    /\ last' = r
    /\ UNCHANGED <<engineVars, tasks, seen, editor, explorer>>

GetRootFolderUri ==
    LET S == initialize(Cur, now)
    IN  Commit(S, now, [NoOp EXCEPT !.op = "getRootFolderUri",
                                    !.retUri = <<"web://", "root">>])

GetFolders ==
    LET S == initialize(Cur, now)
    IN  Commit(S, now, [NoOp EXCEPT !.op = "getFolders",
                                    !.retList = MapValues(S.folders)])

GetDirectoryContentsOf(addrs) ==
    \E folderUri \in addrs :
        LET S == initialize(Cur, now)
        IN  Commit(S, now, [NoOp EXCEPT !.op = "getDirectoryContents",
                                        !.uri = folderUri,
                                        !.retList = directoryContents(S, folderUri)])

GetDirectoryContents == GetDirectoryContentsOf(DirAddrs)

ReadFile ==
    \E fileUri \in FileAddrs :
        LET S == initialize(Cur, now)
            filename == Remove(fileUri, FilePrefix)
        IN  IF ~MapHas(S.files, filename)
            THEN Commit(S, now, [NoOp EXCEPT !.op = "readFile", !.uri = fileUri,
                                             !.status = "File not found"])
            ELSE Commit(S, now, [NoOp EXCEPT !.op = "readFile", !.uri = fileUri,
                                             !.existed = TRUE,
                                             !.retContent = MapGet(S.files, filename).content])

\* writeFileMap that only stamps an existing file, keeping its content.
writeFileMapTouch(m, filename, content, t, u) ==
    IF MapHas(m, filename)
    THEN MapSet(m, filename, [MapGet(m, filename) EXCEPT !.modifiedAt = t])
    ELSE MapSet(m, filename, [name |-> filename, content |-> content,
                              folderId |-> Root, createdAt |-> t,
                              modifiedAt |-> u])

\* writeFileMap that stores a new file over an existing one.
writeFileMapFresh(m, filename, content, t, u) ==
    MapSet(m, filename, [name |-> filename, content |-> content,
                         folderId |-> Root, createdAt |-> t,
                         modifiedAt |-> u])

\* The in-memory step of writeFile; t and u are the values of the first and
\* of the second Date.now() it reads.
writeFileMap(m, filename, content, t, u) ==
    IF MapHas(m, filename)
    THEN MapSet(m, filename, [MapGet(m, filename) EXCEPT !.content = content,
                                                         !.modifiedAt = t])
    ELSE MapSet(m, filename, [name |-> filename, content |-> content,
                              folderId |-> Root, createdAt |-> t,
                              modifiedAt |-> u])

\* writeFile; the clock stands at now at its first Date.now() and at one of
\* times at its second Date.now() and after.
WriteFileAt(times) ==
    \E fileUri \in FileAddrs, content \in Contents, u \in times :
        LET S == initialize(Cur, now)
            filename == Remove(fileUri, FilePrefix)
            existing == MapHas(S.files, filename)
            S1 == [S EXCEPT !.files = writeFileMap(S.files, filename, content, now, u)]
        IN  Commit(save(S1), u, [NoOp EXCEPT !.op = "writeFile", !.uri = fileUri,
                                             !.content = content,
                                             !.existed = existing])

WriteFile == WriteFileAt({now})

\* createFileMap that writes into a file of that name, as writeFile does.
createFileMapKeep(m, folderId, filename, content, t, u) ==
    IF MapHas(m, filename)
    THEN MapSet(m, filename, [MapGet(m, filename) EXCEPT !.content = content,
                                                         !.modifiedAt = t])
    ELSE MapSet(m, filename, [name |-> filename, content |-> content,
                              folderId |-> folderId, createdAt |-> t,
                              modifiedAt |-> u])

\* createFileMap with the two clock values the other way round.
createFileMapSwapped(m, folderId, filename, content, t, u) ==
    MapSet(m, filename, [name |-> filename, content |-> content,
                         folderId |-> folderId, createdAt |-> u,
                         modifiedAt |-> t])

\* The in-memory step of createFile; t and u are the values of the first and
\* of the second Date.now() it reads.
createFileMap(m, folderId, filename, content, t, u) ==
    MapSet(m, filename, [name |-> filename, content |-> content,
                         folderId |-> folderId, createdAt |-> t,
                         modifiedAt |-> u])

\* createFile; the clock stands at now at its first Date.now() and at one of
\* times at its second Date.now() and after.
CreateFileAt(folderIds, names, contents, times) ==
    \E folderId \in folderIds, filename \in names, content \in contents, u \in times :
        LET S == initialize(Cur, now)
            fileUri == FileUri(filename)
            S1 == [S EXCEPT !.files =
                     createFileMap(S.files, folderId, filename, content, now, u)]
        IN  Commit(save(S1), u, [NoOp EXCEPT !.op = "createFile", !.folderId = folderId,
                                            !.name = filename, !.content = content,
                                            !.existed = MapHas(S.files, filename),
                                            !.retUri = fileUri])

CreateFileOf(folderIds, names, contents) ==
    CreateFileAt(folderIds, names, contents, {now})

CreateFile == CreateFileOf(FolderIds, Names, Contents)

\* The in-memory step of createFolder; t is the value of Date.now().
createFolderMap(m, parentId, name, t) ==
    MapSet(m, FolderId(t), [id |-> FolderId(t), name |-> name,
                            parentId |-> parentId, createdAt |-> t])

CreateFolderOf(parentIds, names) ==
    \E parentId \in parentIds, name \in names :
        LET S == initialize(Cur, now)
            id == FolderId(now)
            S1 == [S EXCEPT !.folders = createFolderMap(S.folders, parentId, name, now)]
        IN  Commit(save(S1), now, [NoOp EXCEPT !.op = "createFolder", !.folderId = parentId,
                                              !.name = name,
                                              !.existed = MapHas(S.folders, id),
                                              !.retUri = FolderUri(id)])

\* createFolder under the root folder.
CreateFolder == CreateFolderOf({Root}, FolderNames)

\* deleteFileMap that empties the mapping.
deleteFileMapAll(m, filename) == EmptyMap

\* The in-memory step of deleteFile.
deleteFileMap(m, filename) == MapDelete(m, filename)

DeleteFile ==
    \E fileUri \in FileAddrs :
        LET S == initialize(Cur, now)
            filename == Remove(fileUri, FilePrefix)
            S1 == [S EXCEPT !.files = deleteFileMap(S.files, filename)]
        IN  Commit(save(S1), now, [NoOp EXCEPT !.op = "deleteFile", !.uri = fileUri,
                                               !.existed = MapHas(S.files, filename)])

\* The page is loaded again: a new WebStorageManager, the storage items stay.
Reload ==
    /\ files' = EmptyMap
    /\ folders' = EmptyMap
    /\ initialized' = FALSE
    /\ prev' = NoPrev
    /\ last' = [NoOp EXCEPT !.op = "reload"]
    /\ UNCHANGED <<filesItem, foldersItem, now>>
    /\ UNCHANGED <<engineVars, tasks, seen, editor, explorer>>

\* Time passes between two operations.
Tick ==
    /\ now < MaxClock
    /\ now' = now + 1
    /\ UNCHANGED <<files, folders, initialized, filesItem, foldersItem, last, prev>>
    /\ UNCHANGED <<engineVars, tasks, seen, editor, explorer>>

\* A new WebStorageManager over a storage that was never written.
\* An adapter operation in progress: where it stands (pc), what it was called
\* with, the two values its initialize() read, and how its hydration went.
Tasks == {"t1", "t2"}
IdleTask ==
    [pc |-> "idle", op |-> "none", name |-> <<>>, filesJson |-> NoItem,
     foldersJson |-> NoItem, hydration |-> "none", after |-> "return",
     status |-> "ok"]
NothingSeen ==
    [calls |-> 0, live |-> {}, written |-> {}, swallowed |-> FALSE,
     fault |-> "none", damaged |-> FALSE]
AsyncIdle == tasks = [t \in Tasks |-> IdleTask] /\ seen = NothingSeen

\* No screen is mounted.
UiIdle == editor = [backend |-> "none"] /\ explorer = [rootUri |-> "none"]

StoreInit ==
    /\ files = EmptyMap
    /\ folders = EmptyMap
    /\ initialized = FALSE
    /\ filesItem = NoItem
    /\ foldersItem = NoItem
    /\ now = 0
    /\ last = NoOp
    /\ prev = NoPrev

(***************************************************************************)
(* The specifications.                                                     *)
(***************************************************************************)
\* The virtual file system under any sequence of adapter operations.
Init == StoreInit /\ EngineIdle /\ AsyncIdle /\ UiIdle

Next ==
    \/ GetRootFolderUri
    \/ GetFolders
    \/ GetDirectoryContents
    \/ ReadFile
    \/ WriteFile
    \/ CreateFile
    \/ CreateFolder
    \/ DeleteFile
    \/ Reload
    \/ Tick

Spec == Init /\ [][Next]_vars

\* The folder tree: folders made under the root and under an id that no
\* folder has, files made in the root, and the listings of both.
CreateTreeFile == CreateFileOf({Root}, TreeFileNames, {<<>>})
CreateTreeFolder == CreateFolderOf(ParentIds, TreeFolderNames)
ListTree == GetDirectoryContentsOf(TreeAddrs)

NextFolders ==
    \/ CreateTreeFile
    \/ CreateTreeFolder
    \/ ListTree
    \/ GetFolders
    \/ Reload
    \/ Tick

SpecFolders == Init /\ [][NextFolders]_vars

\* The timestamps of the files: the clock may advance between the two
\* Date.now() of one writeFile or createFile, and between operations.
WriteFileLater == WriteFileAt(now..MaxClock)
CreateFileLater == CreateFileAt(FolderIds, Names, {<<>>}, now..MaxClock)

NextClock ==
    \/ WriteFileLater
    \/ CreateFileLater
    \/ DeleteFile
    \/ Reload
    \/ Tick

SpecClock == Init /\ [][NextClock]_vars

(***************************************************************************)
(* The adapter's operations as interleaved steps (specification SpecAsync). *)
(* An operation is an async function: it runs up to its next await in one  *)
(* step, and the steps of two operations interleave.  The storage of a run *)
(* works, or throws on every getItem, or throws on every setItem; a stored *)
(* record may have been damaged before the page was loaded.                *)
(***************************************************************************)
AsyncOps == {"getRootFolderUri", "getFolders", "getDirectoryContents",
             "readFile", "writeFile", "createFile", "createFolder",
             "deleteFile"}
\* The file an operation names; the other operations name none.
ArgsOf(op) ==
    CASE op \in {"readFile", "writeFile", "deleteFile"} -> {<<"a.md">>}
      [] op = "createFile" -> {<<"b.md">>}
      [] OTHER -> {<<>>}

\* A stored record that JSON.parse rejects.
DamagedItem == JsonItem(<< <<"U007B">> >>)

\* `if (this.initialized) return;` that never returns.
entryAlways(S) == "getFiles"

\* `if (this.initialized) return;`: where initialize() goes first.
entry(S) == IF S.initialized THEN "body" ELSE "getFiles"

\* The catch of initialize() that raises the error to the caller.
caughtRaised(task) ==
    [task EXCEPT !.pc = "idle", !.hydration = "failed", !.status = "init error"]

\* The catch of initialize(): the error is logged, initialize() returns and
\* the operation goes on; the guard is not set.
caught(task) == [task EXCEPT !.pc = "body", !.hydration = "failed"]

\* initialize() has returned with the guard set.
hydrated(task) == [task EXCEPT !.pc = "body", !.hydration = "done"]

\* What the operation that returned or threw leaves in last.
Outcome(task, status) ==
    [NoOp EXCEPT !.op = task.op, !.name = task.name, !.status = status]

\* The rest of initialize() that leaves alone what another initialize() has
\* hydrated in the meantime.
hydrateOnce(S, filesJson, foldersJson, t) ==
    IF S.initialized THEN [S |-> S, outcome |-> "done"]
    ELSE IF filesJson = DamagedItem \/ foldersJson = DamagedItem
    THEN [S |-> S, outcome |-> "failed"]
    ELSE LET S1 == IF filesJson.present
                   THEN [S EXCEPT !.files = MapFromEntries(filesJson.entries, EmptyMap)]
                   ELSE S
             S2 == IF foldersJson.present
                   THEN [S1 EXCEPT !.folders =
                            MapFromEntries(foldersJson.entries, EmptyMap)]
                   ELSE S1
         IN  IF ~MapHas(S2.folders, Root)
             THEN [S |-> [S2 EXCEPT !.folders =
                             MapSet(S2.folders, Root,
                                    [id |-> Root, name |-> RootName,
                                     parentId |-> Null, createdAt |-> t])],
                   outcome |-> "save"]
             ELSE [S |-> [S2 EXCEPT !.initialized = TRUE], outcome |-> "done"]

\* The synchronous part of initialize() after its two reads: the parses,
\* the two assignments and the root folder.  outcome: "failed" (a parse
\* threw), "save" (the root was made, save() follows) or "done".
hydrate(S, filesJson, foldersJson, t) ==
    IF filesJson = DamagedItem THEN [S |-> S, outcome |-> "failed"]
    ELSE LET S1 == IF filesJson.present
                   THEN [S EXCEPT !.files = MapFromEntries(filesJson.entries, EmptyMap)]
                   ELSE S
         IN  IF foldersJson = DamagedItem THEN [S |-> S1, outcome |-> "failed"]
             ELSE LET S2 == IF foldersJson.present
                            THEN [S1 EXCEPT !.folders =
                                     MapFromEntries(foldersJson.entries, EmptyMap)]
                            ELSE S1
                  IN  IF ~MapHas(S2.folders, Root)
                      THEN [S |-> [S2 EXCEPT !.folders =
                                      MapSet(S2.folders, Root,
                                             [id |-> Root, name |-> RootName,
                                              parentId |-> Null, createdAt |-> t])],
                            outcome |-> "save"]
                      ELSE [S |-> [S2 EXCEPT !.initialized = TRUE],
                            outcome |-> "done"]

\* The two setItem of save().
setFiles(S) == [S EXCEPT !.filesItem = JsonItem(MapEntries(S.files))]
setFolders(S) == [S EXCEPT !.foldersItem = JsonItem(MapEntries(S.folders))]

\* The synchronous part of a mutating operation after its initialize().
mutate(S, op, name, t) ==
    CASE op = "writeFile" ->
           [S EXCEPT !.files = writeFileMap(S.files, name, <<"x">>, t, t)]
      [] op = "createFile" ->
           [S EXCEPT !.files = createFileMap(S.files, Root, name, <<>>, t, t)]
      [] op = "createFolder" ->
           [S EXCEPT !.folders = createFolderMap(S.folders, Root, <<"d">>, t)]
      [] op = "deleteFile" ->
           [S EXCEPT !.files = deleteFileMap(S.files, name)]

\* One step: the adapter's fields and the storage become S, the tasks T,
\* the history W and the last outcome L.
Settle(S, T, W, L) ==
    /\ files' = S.files
    /\ folders' = S.folders
    /\ initialized' = S.initialized
    /\ filesItem' = S.filesItem
    /\ foldersItem' = S.foldersItem
    /\ tasks' = T
    /\ seen' = W
    /\ last' = L
    /\ UNCHANGED <<now, prev>>
    /\ UNCHANGED <<engineVars, editor, explorer>>


\* The history after the synchronous part of an operation, and after its
\* return: live holds the names whose latest mutation was a write, written
\* those of them whose write has returned; swallowed tells that an
\* operation has returned normally after its hydration failed.
SeenAtBody(op, name) ==
    CASE op \in {"writeFile", "createFile"} ->
           [seen EXCEPT !.live = @ \cup {name}, !.written = @ \ {name}]
      [] op = "deleteFile" ->
           [seen EXCEPT !.live = @ \ {name}, !.written = @ \ {name}]
      [] OTHER -> seen
SeenAtReturn(W, task) ==
    [W EXCEPT !.written = IF task.op \in {"writeFile", "createFile"} /\ task.name \in W.live
                          THEN @ \cup {task.name} ELSE @,
              !.swallowed = @ \/ task.hydration = "failed"]

\* An operation is called: it enters initialize().
Begin ==
    \E t \in Tasks, op \in AsyncOps :
      \E name \in ArgsOf(op) :
        /\ tasks[t].pc = "idle"
        /\ seen.calls < MaxCalls
        /\ Settle(Cur,
                  [tasks EXCEPT ![t] =
                      [IdleTask EXCEPT !.pc = entry(Cur), !.op = op,
                                       !.name = name,
                                       !.hydration = IF entry(Cur) = "body"
                                                     THEN "skipped" ELSE "none"]],
                  [seen EXCEPT !.calls = @ + 1], last)

\* `await AsyncStorage.getItem(FILES_KEY)`
GetFilesItem ==
    \E t \in Tasks :
        /\ tasks[t].pc = "getFiles"
        /\ IF seen.fault # "getItem"
           THEN Settle(Cur, [tasks EXCEPT ![t].pc = "getFolders",
                                          ![t].filesJson = filesItem], seen, last)
           ELSE Settle(Cur, [tasks EXCEPT ![t] = caught(@)], seen, last)

\* `await AsyncStorage.getItem(FOLDERS_KEY)`
GetFoldersItem ==
    \E t \in Tasks :
        /\ tasks[t].pc = "getFolders"
        /\ IF seen.fault # "getItem"
           THEN Settle(Cur, [tasks EXCEPT ![t].pc = "hydrate",
                                          ![t].foldersJson = foldersItem], seen, last)
           ELSE Settle(Cur, [tasks EXCEPT ![t] = caught(@)], seen, last)

\* The rest of initialize() up to its save() or its return.
Hydrate ==
    \E t \in Tasks :
        /\ tasks[t].pc = "hydrate"
        /\ LET H == hydrate(Cur, tasks[t].filesJson, tasks[t].foldersJson, now)
           IN  CASE H.outcome = "failed" ->
                      Settle(H.S, [tasks EXCEPT ![t] = caught(@)], seen, last)
                 [] H.outcome = "done" ->
                      Settle(H.S, [tasks EXCEPT ![t] = hydrated(@)], seen, last)
                 [] H.outcome = "save" ->
                      IF seen.fault # "setItem"
                      THEN Settle(setFiles(H.S),
                                  [tasks EXCEPT ![t].pc = "saveFolders",
                                                ![t].after = "initialize"],
                                  seen, last)
                      ELSE Settle([H.S EXCEPT !.initialized = TRUE],
                                  [tasks EXCEPT ![t] = hydrated(@)], seen, last)

\* The operation itself, up to the first setItem of its save() or its return.
Perform ==
    \E t \in Tasks :
        LET op == tasks[t].op
            name == tasks[t].name
            status == IF op = "readFile" /\ ~MapHas(files, name)
                      THEN "File not found" ELSE "ok"
        IN  /\ tasks[t].pc = "body"
            /\ IF op \in {"writeFile", "createFile", "createFolder", "deleteFile"}
               THEN LET S1 == mutate(Cur, op, name, now)
                        W == SeenAtBody(op, name)
                    IN  IF seen.fault # "setItem"
                        THEN Settle(setFiles(S1),
                                    [tasks EXCEPT ![t].pc = "saveFolders",
                                                  ![t].after = "return"], W, last)
                        ELSE Settle(S1, [tasks EXCEPT ![t] = IdleTask],
                                    SeenAtReturn(W, tasks[t]),
                                    Outcome(tasks[t], "ok"))
               ELSE Settle(Cur, [tasks EXCEPT ![t] = IdleTask],
                           SeenAtReturn(seen, tasks[t]),
                           Outcome(tasks[t], status))

\* The second setItem of save(), and what follows the save().
SaveFolders ==
    \E t \in Tasks :
        LET S1 == IF seen.fault # "setItem" THEN setFolders(Cur) ELSE Cur
        IN  /\ tasks[t].pc = "saveFolders"
            /\ IF tasks[t].after = "initialize"
               THEN Settle([S1 EXCEPT !.initialized = TRUE],
                           [tasks EXCEPT ![t] = hydrated(@)], seen, last)
               ELSE Settle(S1, [tasks EXCEPT ![t] = IdleTask],
                           SeenAtReturn(seen, tasks[t]), Outcome(tasks[t], "ok"))

\* What an earlier session of the page has left in the storage: nothing, the
\* snapshot of a first hydration, or that of a session that wrote a file;
\* and the same with one of the two records damaged since.
Storages ==
    LET Fresh == [files |-> EmptyMap, folders |-> EmptyMap, initialized |-> FALSE,
                  filesItem |-> NoItem, foldersItem |-> NoItem]
        first == initialize(Fresh, 0)
        second == save([first EXCEPT
                           !.files = writeFileMap(EmptyMap, <<"a.md">>, <<>>, 0, 0)])
    IN  {Fresh, first, second}
        \cup {[S EXCEPT !.filesItem = DamagedItem] : S \in {first, second}}
        \cup {[S EXCEPT !.foldersItem = DamagedItem] : S \in {first, second}}

\* The page has just been loaded: a new WebStorageManager over the storage
\* of an earlier session.  The storage of the run works, or throws on every
\* getItem, or throws on every setItem.
InitAsync ==
    /\ files = EmptyMap
    /\ folders = EmptyMap
    /\ initialized = FALSE
    /\ \E S \in Storages, f \in {"none", "getItem", "setItem"} :
          /\ filesItem = S.filesItem
          /\ foldersItem = S.foldersItem
          /\ seen = [NothingSeen EXCEPT
                        !.fault = f,
                        !.damaged = DamagedItem \in {S.filesItem, S.foldersItem}]
    /\ tasks = [t \in Tasks |-> IdleTask]
    /\ now = 0
    /\ last = NoOp
    /\ prev = NoPrev
    /\ EngineIdle
    /\ UiIdle

NextAsync ==
    \/ Begin
    \/ GetFilesItem
    \/ GetFoldersItem
    \/ Hydrate
    \/ Perform
    \/ SaveFolders

SpecAsync == InitAsync /\ [][NextAsync]_vars

(***************************************************************************)
(* The editor screen (specification SpecEditor): content and selection are *)
(* the variables text and selection, call is the last call of an insertion *)
(* helper, and editor holds the rest of the screen's state, the files of   *)
(* the backend behind the facade of utils/fileHelpers, the save in flight, *)
(* the addresses the backend has returned (issued) and those the last      *)
(* handler passed to it (asked).                                           *)
(***************************************************************************)
\* The uri DocumentPicker returns for the file the user picks.
PickedUri == <<"content://", "dir", "/", "a.md">>

\* uri.substring(0, uri.lastIndexOf('/'))
FolderOf(uri) ==
    LET at == {i \in 1..Len(uri) : uri[i] = "/"}
        lastIndexOf == IF at = {} THEN -1
                       ELSE (CHOOSE i \in at : \A j \in at : j <= i) - 1
    IN  Substring(uri, 0, lastIndexOf)

\* One handler has run: the screen is E, the buffer t and the selection sel;
\* c is the call of an insertion helper the handler made, if any.
Render(E, t, sel, c) ==
    /\ editor' = E
    /\ text' = t
    /\ selection' = sel
    /\ call' = c
    /\ UNCHANGED <<storeVars, tasks, seen, explorer>>

\* loadFile: readFileContent throws for an address the backend has no file
\* at; the selection is left as it is.
loadFile(E, t, fileUri) ==
    LET A == [E EXCEPT !.asked = @ \cup {fileUri}]
    IN  IF fileUri \in DOMAIN E.disk
        THEN [editor |-> [A EXCEPT !.selectedFileUri = fileUri,
                                   !.hasUnsavedChanges = FALSE],
              text |-> E.disk[fileUri]]
        ELSE [editor |-> A, text |-> t]

\* useEffect on mount, web only: getRootFolderUri.
InitializeWebStorage ==
    /\ editor.backend = "web"
    /\ editor.rootFolderUri = Null
    /\ Render([editor EXCEPT !.rootFolderUri = FolderUri(Root),
                             !.issued = @ \cup {FolderUri(Root)},
                             !.asked = {}, !.failedSave = FALSE],
              text, selection, NoCall)

\* The file explorer lists rootFolderUri: getDirectoryContents returns the
\* addresses of the files of that folder.
ListRoot ==
    /\ editor.rootFolderUri # Null
    /\ LET root == editor.rootFolderUri
           entries == IF editor.backend = "web"
                      THEN IF Remove(root, FolderPrefix) = Root
                           THEN DOMAIN editor.disk ELSE {}
                      ELSE {a \in DOMAIN editor.disk : FolderOf(a) = root}
       IN  Render([editor EXCEPT !.issued = @ \cup entries, !.asked = {root}, !.failedSave = FALSE],
                  text, selection, NoCall)

\* handleSelectFile: a listed file is pressed.
SelectFile ==
    \E uri \in editor.issued \ {FolderUri(Root)} :
        LET L == loadFile([editor EXCEPT !.asked = {}, !.failedSave = FALSE], text, uri)
        IN  Render(L.editor, L.text, selection, NoCall)

\* handleSelectFolder: the user picks a file in the document picker.
SelectFolder ==
    /\ Len(PickedUri) > 0              \* result.assets.length > 0
    /\ LET L == loadFile([editor EXCEPT !.rootFolderUri = FolderOf(PickedUri),
                                        !.asked = {}, !.failedSave = FALSE],
                         text, PickedUri)
       IN  Render(L.editor, L.text, selection, NoCall)

\* handleConfirmCreateFile with the name 'a': createNewFile, which replaces
\* the file of that name, then loadFile.
ConfirmCreateFile ==
    /\ editor.rootFolderUri # Null
    /\ LET root == editor.rootFolderUri
           fileUri == IF editor.backend = "web" THEN FileUri(<<"a.md">>)
                      ELSE root \o <<"/", "a.md">>
           E == [editor EXCEPT !.disk = (fileUri :> <<"#", " ", "a", "\n", "\n">>) @@ @,
                               !.issued = @ \cup {fileUri},
                               !.asked = {root}, !.failedSave = FALSE]
           L == loadFile(E, text, fileUri)
       IN  Render(L.editor, L.text, selection, NoCall)

\* handleContentChange: the user types, which leaves the caret at the end of
\* what was typed (handleSelectionChange follows the change).
Type ==
    \E t \in {<<>>, <<"a", "b", "c">>} \ {text} :
        Render([editor EXCEPT !.hasUnsavedChanges = TRUE, !.asked = {}, !.failedSave = FALSE],
               t, Sel(Len(t), Len(t)), NoCall)

\* handleSelectionChange: the user moves the caret or selects.
MoveCursor ==
    /\ Len(text) <= MaxLen
    /\ \E sel \in Selections(text) \ {selection} :
          Render([editor EXCEPT !.asked = {}, !.failedSave = FALSE], text, sel, NoCall)

\* handleToolbarAction: the switch over the twelve buttons.
ToolbarResult(action, t, sel) ==
    CASE action = "h1" -> insertHeading(t, sel, 1)
      [] action = "h2" -> insertHeading(t, sel, 2)
      [] action = "h3" -> insertHeading(t, sel, 3)
      [] action = "bold" -> insertBold(t, sel)
      [] action = "italic" -> insertItalic(t, sel)
      [] action = "hr" -> insertHorizontalRule(t, sel)
      [] action = "bullet" -> insertBulletList(t, sel)
      [] action = "numbered" -> insertNumberedList(t, sel)
      [] action = "checkbox" -> insertCheckbox(t, sel)
      [] action = "code" -> insertCodeBlock(t, sel)
      [] action = "quote" -> insertQuote(t, sel)
      [] action = "link" -> insertLink(t, sel)

ToolbarAction ==
    /\ Len(text) <= MaxLen
    /\ selection.end <= MaxLen
    /\ \E action \in {"h1", "h2", "h3", "bold", "italic", "hr", "bullet",
                      "numbered", "checkbox", "code", "quote", "link"} :
          LET result == ToolbarResult(action, text, selection)
          IN  Render([editor EXCEPT !.hasUnsavedChanges = TRUE, !.asked = {}, !.failedSave = FALSE],
                     result.newText, result.newSelection,
                     [NoCall EXCEPT !.op = action, !.text = text,
                                    !.selection = selection, !.result = result])

\* handleSave up to its await: writeFileContent is called with the selected
\* address and the content of this render.
SaveBegin ==
    /\ editor.selectedFileUri # Null
    /\ editor.saving = <<>>
    /\ Len(text) <= MaxLen
    /\ Render([editor EXCEPT
                  !.saving = <<[uri |-> editor.selectedFileUri, content |-> text]>>,
                  !.failedSave = FALSE,
                  !.asked = {editor.selectedFileUri}],
              text, selection, NoCall)

\* writeFileContent settles and handleSave goes on.  The storage write works
\* or fails: the native branch rethrows the failure, the web branch returns
\* normally, the file written in memory, since save() has caught it.
SaveEnd ==
    \E ok \in BOOLEAN :
        /\ editor.saving # <<>>
        /\ LET s == editor.saving[1]
               written == [editor EXCEPT !.disk = (s.uri :> s.content) @@ @,
                                         !.hasUnsavedChanges = FALSE,
                                         !.saving = <<>>,
                                         !.failedSave = ~ok,
                                         !.asked = {}]
               thrown == [editor EXCEPT !.saving = <<>>, !.failedSave = TRUE,
                                        !.asked = {}]
           IN  Render(IF ok \/ editor.backend = "web" THEN written ELSE thrown,
                      text, selection, NoCall)

\* The screen after mount, on either platform; the backend holds one file,
\* a.md: in the virtual file system, or in the folder the picker shows.
InitEditor ==
    /\ StoreInit
    /\ AsyncIdle
    /\ explorer = [rootUri |-> "none"]
    /\ \E backend \in {"web", "native"} :
          editor = [backend |-> backend, rootFolderUri |-> Null,
                    selectedFileUri |-> Null, hasUnsavedChanges |-> FALSE,
                    disk |-> IF backend = "web" THEN FileUri(<<"a.md">>) :> <<"a">>
                                                ELSE PickedUri :> <<"a">>,
                    saving |-> <<>>, failedSave |-> FALSE, issued |-> {},
                    asked |-> {}]
    /\ text = <<>>
    /\ selection = Sel(0, 0)
    /\ call = NoCall

NextEditor ==
    \/ InitializeWebStorage
    \/ ListRoot
    \/ SelectFile
    \/ SelectFolder
    \/ ConfirmCreateFile
    \/ Type
    \/ MoveCursor
    \/ ToolbarAction
    \/ SaveBegin
    \/ SaveEnd

SpecEditor == InitEditor /\ [][NextEditor]_vars

(***************************************************************************)
(* The file explorer (specification SpecExplorer).  explorer holds the     *)
(* prop rootUri, the state folderContents (the cache: for each listed      *)
(* folder the backend's listing at the time), expandedFolders and loading, *)
(* the getDirectoryContents calls in flight, the backend's current listing *)
(* and refreshed: refresh was pressed over a cached root, and since then   *)
(* the root was not listed and no other button was pressed.  A handler     *)
(* reads the state of the render it was made in, whatever it has set since. *)
(***************************************************************************)
\* loadFolderContents(uri) up to its await, for a closure that sees the
\* cache folderContents.
loadFolderContents(E, folderContents, uri) ==
    IF uri \in DOMAIN folderContents THEN E
    ELSE [E EXCEPT !.loading = TRUE, !.pending = @ \cup {uri}]

\* The parent gives a root folder: the effect on [rootUri] loads it and
\* expands it.
SetRoot ==
    \E r \in {FolderUri(Root), FolderOf(PickedUri)} \ {explorer.rootUri} :
        /\ explorer' = [loadFolderContents(explorer, explorer.folderContents, r)
                           EXCEPT !.rootUri = r, !.expandedFolders = {r},
                                  !.refreshed = FALSE]
        /\ UNCHANGED <<engineVars, storeVars, tasks, seen, editor>>

\* getDirectoryContents settles: the listing enters the cache.
LoadEnd ==
    \E uri \in explorer.pending :
        /\ explorer' = [explorer EXCEPT
                           !.folderContents = (uri :> explorer.backend) @@ @,
                           !.pending = @ \ {uri},
                           !.loading = FALSE,
                           !.refreshed = @ /\ uri # explorer.rootUri]
        /\ UNCHANGED <<engineVars, storeVars, tasks, seen, editor>>

\* toggleFolder on the folder row d, shown once the root is listed.
ToggleFolder ==
    /\ explorer.rootUri \in DOMAIN explorer.folderContents
    /\ LET uri == explorer.rootUri \o <<"/", "d">>
           isExpanded == uri \in explorer.expandedFolders
           E == [explorer EXCEPT
                    !.expandedFolders = IF isExpanded THEN @ \ {uri} ELSE @ \cup {uri}]
       IN  /\ explorer' = IF ~isExpanded /\ uri \notin DOMAIN explorer.folderContents
                          THEN loadFolderContents(E, explorer.folderContents, uri)
                          ELSE E
           /\ UNCHANGED <<engineVars, storeVars, tasks, seen, editor>>

\* The refresh button: setFolderContents({}), then loadFolderContents(rootUri)
\* of the render the button was made in.
Refresh ==
    /\ explorer.rootUri # Null
    /\ explorer' =
          [loadFolderContents([explorer EXCEPT !.folderContents = [k \in {} |-> 0]],
                              explorer.folderContents, explorer.rootUri)
              EXCEPT !.refreshed = explorer.rootUri \in DOMAIN explorer.folderContents]
    /\ UNCHANGED <<engineVars, storeVars, tasks, seen, editor>>

\* A file is created or removed in the backend: its listing changes.
BackendChanges ==
    /\ explorer' = [explorer EXCEPT !.backend = 3 - @]
    /\ UNCHANGED <<engineVars, storeVars, tasks, seen, editor>>

InitExplorer ==
    /\ StoreInit
    /\ EngineIdle
    /\ AsyncIdle
    /\ editor = [backend |-> "none"]
    /\ explorer = [rootUri |-> Null, folderContents |-> [k \in {} |-> 0],
                   expandedFolders |-> {}, loading |-> FALSE, pending |-> {},
                   backend |-> 1, refreshed |-> FALSE]

NextExplorer ==
    \/ SetRoot
    \/ LoadEnd
    \/ ToggleFolder
    \/ Refresh
    \/ BackendChanges

\* A call in flight settles; nothing makes the user press a button.
SpecExplorer == InitExplorer /\ [][NextExplorer]_vars /\ WF_vars(LoadEnd)

\* The insertion helpers on every input text and selection.
InitEngine ==
    /\ StoreInit
    /\ AsyncIdle
    /\ UiIdle
    /\ text \in InputTexts
    /\ selection \in Selections(text)
    /\ call = NoCall

NextEngine ==
    \/ Wrap
    \/ Heading
    \/ Bold
    \/ Italic
    \/ HorizontalRule
    \/ BulletList
    \/ NumberedList
    \/ CodeBlock
    \/ Quote
    \/ Link
    \/ Checkbox

SpecEngine == InitEngine /\ [][NextEngine]_vars

(***************************************************************************)
(* Properties of the virtual file system (specification Spec).             *)
(***************************************************************************)

\* C1: a readFile that directly follows a writeFile of the same address
\* returns, without error, exactly the content that was written, whether
\* the file existed before the write or not.
C1_WriteReadRoundTrip ==
    (last.op = "readFile" /\ prev.op = "writeFile" /\ prev.uri = last.uri)
        => (last.status = "ok" /\ last.retContent = prev.content)

\* A readFile directly after a writeFile that replaced the content of an
\* existing file by the empty string.
C1_Witness ==
    /\ last.op = "readFile"
    /\ prev.op = "writeFile"
    /\ prev.uri = last.uri
    /\ prev.existed
    /\ prev.content = <<>>

\* The file name an address carries: what follows 'web://file/', or the
\* whole address when it does not start with it.
AddressedName(uri) ==
    IF Len(uri) >= 2 /\ SubSeq(uri, 1, 2) = FilePrefix
    THEN SubSeq(uri, 3, Len(uri))
    ELSE uri

\* A persisted record as a mapping from its keys.
SnapshotAt(item) ==
    [k \in {item.entries[i][1] : i \in DOMAIN item.entries} |->
        item.entries[CHOOSE i \in DOMAIN item.entries : item.entries[i][1] = k][2]]

\* The store an operation starts from: the in-memory mappings once they are
\* hydrated, the persisted snapshot before.
StoredFiles == IF initialized THEN files.at ELSE SnapshotAt(filesItem)
StoredFolders == IF initialized THEN folders.at ELSE SnapshotAt(foldersItem)

\* A step leaves every folder as it was; the one folder it may add is the
\* root, which the first hydration of an empty storage makes.
FoldersKept ==
    /\ \A id \in DOMAIN StoredFolders :
          id \in DOMAIN folders'.at /\ folders'.at[id] = StoredFolders[id]
    /\ DOMAIN folders'.at \subseteq DOMAIN StoredFolders \cup {Root}

\* A step leaves every file but the named one as it was.
OtherFilesKept(name) ==
    /\ DOMAIN files'.at \ {name} = DOMAIN StoredFiles \ {name}
    /\ \A k \in DOMAIN StoredFiles \ {name} : files'.at[k] = StoredFiles[k]

\* The step is the operation op: Tick alone keeps last and it moves the clock.
StepOf(op) == last'.op = op /\ now' = now

\* C11: writeFile returns without error and leaves every folder and every
\* other file as they were; of a file that exists it keeps name, folderId and
\* createdAt and sets the content; a file that does not exist is added in
\* the root folder with the content.
C11_WriteFileFrame ==
    [][StepOf("writeFile") =>
        LET name == AddressedName(last'.uri)
        IN  /\ last'.status = "ok"
            /\ FoldersKept
            /\ OtherFilesKept(name)
            /\ name \in DOMAIN files'.at
            /\ files'.at[name].name = name
            /\ files'.at[name].content = last'.content
            /\ IF name \in DOMAIN StoredFiles
               THEN /\ files'.at[name].folderId = StoredFiles[name].folderId
                    /\ files'.at[name].createdAt = StoredFiles[name].createdAt
               ELSE files'.at[name].folderId = Root]_vars

\* A writeFile has replaced the content of a file that was made earlier in
\* another folder than the root, beside another file and another folder.
C11_Witness ==
    /\ last.op = "writeFile"
    /\ last.existed
    /\ Cardinality(DOMAIN files.at) = 2
    /\ Cardinality(DOMAIN folders.at) >= 2
    /\ LET f == files.at[AddressedName(last.uri)]
       IN  f.folderId # Root /\ f.createdAt < f.modifiedAt /\ f.content = last.content

\* The file entries of name n in the listings of all folders addressed.
FileEntriesNamed(n) ==
    {x \in {<<d, i>> : d \in DirAddrs, i \in 1..Cardinality(DOMAIN files.at)} :
        /\ x[2] <= Len(directoryContents(Cur, x[1]))
        /\ ~directoryContents(Cur, x[1])[x[2]].isDirectory
        /\ directoryContents(Cur, x[1])[x[2]].name = n}

\* The places of name n in a list of stored files or of [key, file] pairs.
PlacesNamed(list, n) == {i \in DOMAIN list : list[i].name = n}

NameHeldOnce ==
    \A n \in Names \cup {AddressedName(a) : a \in FileAddrs} :
        /\ Cardinality(PlacesNamed(MapValues(files), n)) <= 1
        /\ Cardinality(PlacesNamed([i \in DOMAIN filesItem.entries |->
                                        filesItem.entries[i][2]], n)) <= 1
        /\ Cardinality(FileEntriesNamed(n)) <= 1
        /\ n \in DOMAIN files.at => files.at[n].name = n

\* C12: a file name is held by at most one stored file, in memory and in the
\* snapshot, and is listed in at most one folder; createFile succeeds on a
\* name that exists or not, leaves one file of that name with the content
\* and the folder given and with fresh timestamps, and every other file as
\* it was; a readFile of the address createFile returned gives that content.
C12_NameHeldOnce ==
    /\ [](NameHeldOnce)
    /\ []((last.op = "readFile" /\ prev.op = "createFile" /\ prev.uri = last.uri)
            => (last.status = "ok" /\ last.retContent = prev.content))
    /\ [][StepOf("createFile") =>
            /\ last'.status = "ok"
            /\ OtherFilesKept(last'.name)
            /\ last'.name \in DOMAIN files'.at
            /\ files'.at[last'.name] =
                  [name |-> last'.name, content |-> last'.content,
                   folderId |-> last'.folderId, createdAt |-> now',
                   modifiedAt |-> now']
            /\ AddressedName(last'.retUri) = last'.name]_vars

\* A readFile after a createFile that replaced a file of the same name: the
\* file is in the folder 'folder_1' and holds the content given.
C12_Witness ==
    /\ last.op = "readFile"
    /\ prev.op = "createFile"
    /\ prev.uri = last.uri
    /\ prev.existed
    /\ prev.content = <<"x">>
    /\ files.at[AddressedName(last.uri)].folderId = FolderId(1)
    /\ Cardinality(DOMAIN files.at) = 2

\* C13: deleteFile returns without error, leaves no file of the name
\* addressed and every other file and every folder as they were; when there
\* was no file of that name, the hydrated in-memory mappings and an existing
\* persisted snapshot are left as they were; a readFile of the same address
\* directly after a deleteFile fails with 'File not found'.
C13_DeleteFile ==
    /\ []((last.op = "readFile" /\ prev.op = "deleteFile" /\ prev.uri = last.uri)
            => last.status = "File not found")
    /\ [][StepOf("deleteFile") =>
            LET name == AddressedName(last'.uri)
            IN  /\ last'.status = "ok"
                /\ FoldersKept
                /\ OtherFilesKept(name)
                /\ name \notin DOMAIN files'.at
                /\ (name \notin DOMAIN StoredFiles /\ initialized)
                      => (files' = files /\ folders' = folders)
                /\ (name \notin DOMAIN StoredFiles /\ foldersItem.present)
                      => (filesItem' = filesItem /\ foldersItem' = foldersItem)]_vars

\* A readFile directly after the deleteFile of a file that existed, with
\* another file and another folder left in the store.
C13_Witness ==
    /\ last.op = "readFile"
    /\ prev.op = "deleteFile"
    /\ prev.uri = last.uri
    /\ prev.existed
    /\ Cardinality(DOMAIN files.at) = 1
    /\ Cardinality(DOMAIN folders.at) >= 2

\* C14: readFile on an address whose name is in the store returns, without
\* error, the content stored under it, and fails with 'File not found'
\* otherwise; in both cases the files and folders are those it started from,
\* the hydrated in-memory mappings and an existing persisted snapshot are
\* left as they were.
C14_ReadFile ==
    [][StepOf("readFile") =>
        LET name == AddressedName(last'.uri)
        IN  /\ IF name \in DOMAIN StoredFiles
               THEN /\ last'.status = "ok"
                    /\ last'.retContent = StoredFiles[name].content
               ELSE last'.status = "File not found"
            /\ files'.at = StoredFiles
            /\ FoldersKept
            /\ initialized => (files' = files /\ folders' = folders)
            /\ foldersItem.present
                  => (filesItem' = filesItem /\ foldersItem' = foldersItem)]_vars

\* A readFile has failed for a name that is not in a store that holds
\* another file, on an adapter hydrated from a persisted snapshot.
C14_Witness ==
    /\ last.op = "readFile"
    /\ last.status = "File not found"
    /\ AddressedName(last.uri) \notin DOMAIN files.at
    /\ Cardinality(DOMAIN files.at) = 1
    /\ filesItem.present

\* The folder id an address of a folder carries: what follows 'web://'.
AddressedFolder(uri) ==
    IF Len(uri) >= 1 /\ uri[1] = "web://" THEN Tail(uri) ELSE uri

\* The stored folders and files under the folder id.
FoldersUnder(id) == {k \in DOMAIN folders.at : folders.at[k].parentId = id}
FilesUnder(id) == {k \in DOMAIN files.at : files.at[k].folderId = id}

\* The list holds one directory entry for each folder and one file entry for
\* each file under the folder id, and no other entry.
ListsExactly(list, id) ==
    /\ \A k \in FoldersUnder(id) :
          Cardinality({i \in DOMAIN list :
                /\ list[i].isDirectory
                /\ list[i].uri = <<"web://">> \o k
                /\ list[i].name = folders.at[k].name}) = 1
    /\ \A k \in FilesUnder(id) :
          Cardinality({i \in DOMAIN list :
                /\ ~list[i].isDirectory
                /\ list[i].name = k
                /\ list[i].size = Len(files.at[k].content)
                /\ list[i].modificationTime = files.at[k].modifiedAt}) = 1
    /\ Len(list) = Cardinality(FoldersUnder(id)) + Cardinality(FilesUnder(id))

\* getDirectoryContents leaves the store as it was.
ListingKeepsStore ==
    [][StepOf("getDirectoryContents") =>
        /\ last'.status = "ok"
        /\ files'.at = StoredFiles
        /\ FoldersKept
        /\ initialized => (files' = files /\ folders' = folders)
        /\ foldersItem.present
              => (filesItem' = filesItem /\ foldersItem' = foldersItem)]_vars

\* C15 as stated: the result of getDirectoryContents holds exactly the
\* folders and files stored under the folder id addressed, it is empty for a
\* folder id that no folder has, and the store is left as it was.
C15_ListingAsStated ==
    /\ [](last.op = "getDirectoryContents"
            => /\ ListsExactly(last.retList, AddressedFolder(last.uri))
               /\ AddressedFolder(last.uri) \notin DOMAIN folders.at
                     => last.retList = <<>>)
    /\ ListingKeepsStore

\* C15: the result of getDirectoryContents holds exactly the folders and
\* files stored under the folder id addressed, also for a folder id that no
\* folder has: it is empty when nothing is stored under that id, and it
\* holds the files that createFile put under that id otherwise; the call
\* returns without error and leaves the store as it was.
C15_Listing ==
    /\ [](last.op = "getDirectoryContents"
            => /\ ListsExactly(last.retList, AddressedFolder(last.uri))
               /\ (/\ FoldersUnder(AddressedFolder(last.uri)) = {}
                   /\ FilesUnder(AddressedFolder(last.uri)) = {})
                     => last.retList = <<>>)
    /\ ListingKeepsStore

\* getDirectoryContents of 'web://folder_1', an id that no folder has, has
\* returned the file that createFile put under that id.
C15_Witness ==
    /\ last.op = "getDirectoryContents"
    /\ last.uri = FolderUri(FolderId(1))
    /\ FolderId(1) \notin DOMAIN folders.at
    /\ Len(last.retList) = 1
    /\ ~last.retList[1].isDirectory

\* C17: while the adapter is hydrated, the folder mapping holds the folder
\* 'root' with parentId null, no other folder has parentId null, and the
\* persisted folder record holds the same root folder.
C17_RootFolder ==
    initialized =>
        /\ Root \in DOMAIN folders.at
        /\ folders.at[Root].id = Root
        /\ folders.at[Root].parentId = Null
        /\ \A k \in DOMAIN folders.at \ {Root} : folders.at[k].parentId # Null
        /\ foldersItem.present
        /\ Root \in DOMAIN SnapshotAt(foldersItem)
        /\ SnapshotAt(foldersItem)[Root] = folders.at[Root]

\* The adapter is hydrated and holds, beside the root made at clock value
\* 0, a folder made at clock value 1.
C17_Witness ==
    /\ initialized
    /\ last.op = "getFolders"
    /\ Len(last.retList) = 2
    /\ folders.at[Root].createdAt = 0
    /\ FolderId(1) \in DOMAIN folders.at

\* A new adapter hydrated from the two persisted records as they are now.
HydratedAfresh ==
    initialize([Cur EXCEPT !.files = EmptyMap, !.folders = EmptyMap,
                           !.initialized = FALSE], now)

\* C24: when writeFile, createFile, createFolder or deleteFile has returned,
\* both records are persisted, and an adapter hydrated afresh from them holds
\* the file mapping and the folder mapping that are in memory, and finds
\* nothing to persist.
C24_SnapshotIsMemory ==
    last.op \in {"writeFile", "createFile", "createFolder", "deleteFile"}
        => /\ filesItem.present /\ foldersItem.present
           /\ HydratedAfresh.files = files
           /\ HydratedAfresh.folders = folders
           /\ HydratedAfresh.filesItem = filesItem
           /\ HydratedAfresh.foldersItem = foldersItem

\* A createFolder has returned on a store of two files and three folders.
C24_Witness ==
    /\ last.op = "createFolder"
    /\ Cardinality(DOMAIN files.at) = 2
    /\ Cardinality(DOMAIN folders.at) = 3
    /\ Len(foldersItem.entries) = 3

(***************************************************************************)
(* Properties of the folder tree (specification SpecFolders).              *)
(***************************************************************************)
\* The names of the entries of a list, in the order of the list.
EntryNames(list) == [i \in DOMAIN list |-> list[i].name]

\* The store holds exactly the files b.md and A.md and two folders named z
\* and Alpha, all of them under the root folder.
TreeOfExample ==
    /\ DOMAIN files.at = TreeFileNames
    /\ FilesUnder(Root) = TreeFileNames
    /\ Cardinality(FoldersUnder(Root)) = 2
    /\ {folders.at[k].name : k \in FoldersUnder(Root)} = TreeFolderNames

\* C16: in every result of getDirectoryContents the directory entries come
\* before the file entries and the names inside each group ascend in
\* collation order; with the files b.md and A.md and the folders z and Alpha
\* under the root, the listing of the root is Alpha, z, A.md, b.md.
C16_ListingOrder ==
    last.op = "getDirectoryContents"
        => /\ \A i, j \in DOMAIN last.retList :
                i < j => /\ last.retList[i].isDirectory \/ ~last.retList[j].isDirectory
                         /\ last.retList[i].isDirectory = last.retList[j].isDirectory
                               => CollationRank(last.retList[i].name)
                                     <= CollationRank(last.retList[j].name)
           /\ (last.uri = FolderUri(Root) /\ TreeOfExample)
                 => EntryNames(last.retList)
                       = << <<"Alpha">>, <<"z">>, <<"A.md">>, <<"b.md">> >>

\* The root was listed with the example in the store, the folder z made
\* before Alpha and the file b.md before A.md.
C16_Witness ==
    /\ last.op = "getDirectoryContents"
    /\ last.uri = FolderUri(Root)
    /\ TreeOfExample
    /\ files.order = << <<"b.md">>, <<"A.md">> >>
    /\ folders.at[FolderId(0)].name = <<"z">>
    /\ Len(last.retList) = 4

\* C18 as stated: every folder other than the root has a parentId that is
\* the id of a folder in the store.  createFolder stores the parentId it is
\* given without looking it up, so this fails.
C18_ParentsResolveAsStated ==
    \A k \in DOMAIN folders.at \ {Root} :
        folders.at[k].parentId \in DOMAIN folders.at

\* C19 as stated: a createFolder on a hydrated adapter adds one folder under
\* an id that no folder had and leaves every folder that was there as it
\* was.  The id is made of the clock value alone, so a second createFolder
\* at the same clock value replaces the folder of the first and this fails.
C19_FreshFolderIdAsStated ==
    [][(StepOf("createFolder") /\ initialized) =>
        /\ AddressedFolder(last'.retUri) \notin DOMAIN folders.at
        /\ Cardinality(DOMAIN folders'.at) = Cardinality(DOMAIN folders.at) + 1
        /\ \A k \in DOMAIN folders.at :
              k \in DOMAIN folders'.at /\ folders'.at[k] = folders.at[k]]_vars

(***************************************************************************)
(* Properties of the timestamps (specification SpecClock).                 *)
(***************************************************************************)
\* C20: every stored file, in memory and in the persisted snapshot, has
\* modifiedAt >= createdAt, under a clock that does not go backwards.
C20_ModifiedNotBeforeCreated ==
    /\ \A k \in DOMAIN files.at : files.at[k].modifiedAt >= files.at[k].createdAt
    /\ \A i \in DOMAIN filesItem.entries :
          filesItem.entries[i][2].modifiedAt >= filesItem.entries[i][2].createdAt

\* A createFile has replaced a file while the clock advanced between its two
\* Date.now(), beside a file that writeFile made.
C20_Witness ==
    /\ last.op = "createFile"
    /\ last.existed
    /\ files.at[last.name].createdAt = 0
    /\ files.at[last.name].modifiedAt = 1
    /\ \E k \in DOMAIN files.at \ {last.name} : files.at[k].modifiedAt = 0

(***************************************************************************)
(* Properties of the insertion helpers (specification SpecEngine).         *)
(* In each, the call is described from its arguments alone: t, s and e are *)
(* the text and the selection given, SubSeq(t, s + 1, e) the selected text.*)
(***************************************************************************)
WellFormed(c) ==
    0 <= c.selection.start /\ c.selection.start <= c.selection.end
        /\ c.selection.end <= Len(c.text)

SelectedText(c) == SubSeq(c.text, c.selection.start + 1, c.selection.end)
TextBefore(c) == SubSeq(c.text, 1, c.selection.start)
TextAfter(c) == SubSeq(c.text, c.selection.end + 1, Len(c.text))
Body(c, placeholder) ==
    IF c.selection.end > c.selection.start THEN SelectedText(c) ELSE placeholder

\* C2: insertMarkdown returns text[0:start] + prefix + body + suffix +
\* text[end:], body being the selected text when there is one and the
\* placeholder otherwise.
C2_InsertMarkdownText ==
    (call.op = "insertMarkdown" /\ WellFormed(call))
        => call.result.newText =
              TextBefore(call) \o call.prefix \o Body(call, call.placeholder)
                  \o call.suffix \o TextAfter(call)

\* insertMarkdown on a selection in the middle of the text, with a prefix,
\* a suffix and a placeholder that are not empty.
C2_Witness ==
    /\ call.op = "insertMarkdown"
    /\ call.selection = Sel(1, 2)
    /\ Len(call.text) = 3
    /\ call.prefix # <<>> /\ call.suffix # <<>> /\ call.placeholder # <<>>

\* C3: insertMarkdown returns a collapsed selection at start + len(prefix) +
\* len(body) + len(suffix): the inserted span ends there, and the offset is
\* at most the length of the new text.
C3_CaretAfterSpan ==
    (call.op = "insertMarkdown" /\ WellFormed(call))
        => LET span == call.prefix \o Body(call, call.placeholder) \o call.suffix
               caret == call.selection.start + Len(span)
           IN  /\ call.result.newSelection = Sel(caret, caret)
               /\ caret <= Len(call.result.newText)
               /\ SubSeq(call.result.newText, call.selection.start + 1, caret) = span

\* insertMarkdown at a caret inside the text, the placeholder being inserted
\* between a prefix and a suffix.
C3_Witness ==
    /\ call.op = "insertMarkdown"
    /\ call.selection = Sel(1, 1)
    /\ Len(call.text) = 2
    /\ call.prefix # <<>> /\ call.suffix # <<>> /\ call.placeholder # <<>>

BoldInput == call.op = "insertBold" /\ call.text = HelloWorld /\ call.selection = Sel(6, 11)
HelloBoldWorld ==
    <<"H", "e", "l", "l", "o", " ", "*", "*", "w", "o", "r", "l", "d", "*", "*">>

\* C4 as stated: bold on "Hello world" with the selection {6, 11} returns
\* "Hello **world**" and the selection {16, 16}.
C4_BoldExampleAsStated ==
    BoldInput => (call.result.newText = HelloBoldWorld
                  /\ call.result.newSelection = Sel(16, 16))

\* C4, amended: bold on "Hello world" with the selection {6, 11} returns
\* "Hello **world**" and the selection {15, 15}, the end of the new text.
C4_BoldExample ==
    BoldInput => (call.result.newText = HelloBoldWorld
                  /\ call.result.newSelection = Sel(15, 15))

\* Bold was applied to "Hello world" with "world" selected.
C4_Witness == BoldInput

\* C5 as stated: the text insertMarkdown returns is as long as the text
\* given plus the prefix plus the suffix plus the selected text when there
\* is one, else the placeholder.
C5_ResultLengthAsStated ==
    (call.op = "insertMarkdown" /\ WellFormed(call))
        => Len(call.result.newText) =
              Len(call.text) + Len(call.prefix) + Len(call.suffix)
                  + (IF call.selection.end > call.selection.start
                     THEN call.selection.end - call.selection.start
                     ELSE Len(call.placeholder))

\* C5, amended: the selected text stays in place and is not counted again;
\* the new text is as long as the text given plus the prefix plus the
\* suffix, plus the placeholder when the selection is empty.
C5_ResultLength ==
    (call.op = "insertMarkdown" /\ WellFormed(call))
        => Len(call.result.newText) =
              Len(call.text) + Len(call.prefix) + Len(call.suffix)
                  + (IF call.selection.end > call.selection.start
                     THEN 0
                     ELSE Len(call.placeholder))

\* insertMarkdown with a selection of two characters and a placeholder of
\* another length.
C5_Witness ==
    /\ call.op = "insertMarkdown"
    /\ call.selection.end = call.selection.start + 2
    /\ Len(call.placeholder) = 1
    /\ call.prefix # <<>>

(***************************************************************************)
(* The lines of a text, described from the positions of its newlines:      *)
(* line k lies between newline k - 1 and newline k, and LineStartOf and    *)
(* LineEndOf are the offsets of its first character and of its end.        *)
(***************************************************************************)
NewlinePositions(t) == {i \in 1..Len(t) : t[i] = "\n"}
LineCount(t) == Cardinality(NewlinePositions(t)) + 1
NthNewline(t, k) ==
    CHOOSE i \in NewlinePositions(t) :
        Cardinality({j \in NewlinePositions(t) : j < i}) = k - 1
LineStartOf(t, k) == IF k = 1 THEN 0 ELSE NthNewline(t, k - 1)
LineEndOf(t, k) == IF k = LineCount(t) THEN Len(t) ELSE NthNewline(t, k) - 1
LineOf(t, k) == SubSeq(t, LineStartOf(t, k) + 1, LineEndOf(t, k))
ContainsOffset(t, k, p) == LineStartOf(t, k) <= p /\ p <= LineEndOf(t, k)

\* The line of c.text whose character range contains c.selection.start.
TargetLine(c) ==
    CHOOSE k \in 1..LineCount(c.text) : ContainsOffset(c.text, k, c.selection.start)

\* The number of '#' a line starts with.
HashRun(line) ==
    Cardinality({n \in 1..Len(line) : \A j \in 1..n : line[j] = "#"})
\* The number of whitespace characters that follow the first h characters.
SpaceRun(line, h) ==
    Cardinality({n \in (h + 1)..Len(line) : \A j \in (h + 1)..n : line[j] \in Whitespace})
\* A line without its leading run of 1 to 6 '#' and the whitespace after it.
StrippedLine(line) ==
    LET h == Min(HashRun(line), 6)
    IN  IF h = 0 THEN line
        ELSE SubSeq(line, h + SpaceRun(line, h) + 1, Len(line))
Hashes(level) == [j \in 1..level |-> "#"]
\* A line that starts with a heading marker: 1 to 6 '#'.
AtHeadingLevel(line) == HashRun(line) \in 1..6

HeadingCall(c) == c.op = "insertHeading" /\ WellFormed(c)

\* C6: insertHeading changes only the one line whose character range
\* [lineStart, lineStart + len(line)] contains selection.start: there is
\* exactly one such line, every other line is unchanged and the number of
\* lines is unchanged.
C6_HeadingFrame ==
    HeadingCall(call)
        => LET t == call.text
               u == call.result.newText
               p == call.selection.start
           IN  /\ LineCount(u) = LineCount(t)
               /\ Cardinality({k \in 1..LineCount(t) : ContainsOffset(t, k, p)}) = 1
               /\ \A k \in 1..LineCount(t) :
                     ~ContainsOffset(t, k, p) => LineOf(u, k) = LineOf(t, k)

\* insertHeading with the caret at the end of the first line, just before
\* its newline, changed the text.
C6_Witness ==
    /\ HeadingCall(call)
    /\ LineCount(call.text) >= 2
    /\ call.selection.start = LineEndOf(call.text, 1)
    /\ call.selection.start >= 1
    /\ LineOf(call.result.newText, 1) # LineOf(call.text, 1)
    /\ LineOf(call.result.newText, 2) = LineOf(call.text, 2)

\* C7: insertHeading replaces the target line by level '#', one space and
\* the old line without its leading run of 1 to 6 '#' and the whitespace
\* after it, and returns a collapsed caret at the end of the rewritten line;
\* on the empty text with level 2 it returns "## " and the caret 3.
C7_HeadingRewrite ==
    HeadingCall(call)
        => LET t == call.text
               u == call.result.newText
               k == TargetLine(call)
           IN  /\ call.level \in 1..6
               /\ LineOf(u, k) = Hashes(call.level) \o <<" ">> \o StrippedLine(LineOf(t, k))
               /\ call.result.newSelection = Sel(LineEndOf(u, k), LineEndOf(u, k))
               /\ (t = <<>> /\ call.level = 2)
                     => (u = <<"#", "#", " ">> /\ call.result.newSelection = Sel(3, 3))

\* insertHeading with level 2 on a line of seven '#' and a letter: six '#'
\* are removed, the seventh stays.
C7_Witness ==
    /\ HeadingCall(call)
    /\ call.text = SevenHashes
    /\ call.level = 2
    /\ call.result.newText = <<"#", "#", " ", "#", "a">>

\* C8: insertHeading with level k on a line that starts with a heading
\* marker (1 to 6 '#') gives a line that starts with exactly k '#', a space
\* and the old line without marker; and when the same level is applied again
\* to the text and selection such a call returned (the buffer and selection
\* of the next call), the text and the selection stay.
C8_HeadingIdempotent ==
    /\ (HeadingCall(call) /\ AtHeadingLevel(LineOf(call.text, TargetLine(call))))
          => LET new == LineOf(call.result.newText, TargetLine(call))
                 old == LineOf(call.text, TargetLine(call))
             IN  /\ HashRun(new) = call.level
                 /\ SubSeq(new, call.level + 1, Len(new))
                        = <<" ">> \o SubSeq(old, HashRun(old) + SpaceRun(old, HashRun(old)) + 1,
                                            Len(old))
    /\ (/\ HeadingCall(call)
        /\ call.before.op = "insertHeading"
        /\ call.before.level = call.level
        /\ call.before.matched)
          => /\ call.result.newText = call.text
             /\ call.result.newSelection = call.selection

\* Level 3 was applied to a line with a heading marker, and then again to
\* what that call returned: the line has three '#' and did not change.
C8_Witness ==
    /\ HeadingCall(call)
    /\ call.before.op = "insertHeading"
    /\ call.before.matched
    /\ call.level = 3
    /\ call.before.level = 3
    /\ HashRun(LineOf(call.text, TargetLine(call))) = 3
    /\ call.result.newText = call.text

\* Idempotence on every line, also one that starts with whitespace and has
\* no heading marker (it does not hold there: see C8).
HeadingIdempotentOnEveryLine ==
    (/\ HeadingCall(call)
     /\ call.before.op = "insertHeading"
     /\ call.before.level = call.level)
        => call.result.newText = call.text

FenceOpen == <<BT, BT, BT, "\n">>
FenceClose == <<"\n", BT, BT, BT>>

\* C9: the code operation wraps a selection that is not empty and has no
\* newline in single backticks; an empty selection, or one with a newline,
\* is wrapped in a fenced block, the placeholder being the body when the
\* selection is empty.
C9_CodeBranch ==
    (call.op = "insertCodeBlock" /\ WellFormed(call))
        => LET selected == SelectedText(call)
               inline == selected # <<>> /\ \A i \in 1..Len(selected) : selected[i] # "\n"
           IN  call.result.newText =
                  IF inline
                  THEN TextBefore(call) \o <<BT>> \o selected \o <<BT>> \o TextAfter(call)
                  ELSE TextBefore(call) \o FenceOpen \o Body(call, PhCode)
                           \o FenceClose \o TextAfter(call)

\* The code operation on a selection of two lines.
C9_Witness ==
    /\ call.op = "insertCodeBlock"
    /\ call.text = <<"a", "\n", "a">>
    /\ call.selection = Sel(0, 3)

LinkTemplate == <<"[">> \o PhLinkText \o <<"]", "(", "U", "R", "L", ")">>

\* C10 as stated: the link operation on an empty selection inserts the
\* template [label](URL) and leaves the caret inside the parentheses, at the
\* destination; on a selection it gives [selected](URL).
C10_LinkCaretAtDestinationAsStated ==
    (call.op = "insertLink" /\ WellFormed(call))
        => IF call.selection.start = call.selection.end
           THEN /\ call.result.newText = TextBefore(call) \o LinkTemplate \o TextAfter(call)
                /\ call.result.newSelection.start
                       >= call.selection.start + Len(<<"[">> \o PhLinkText \o <<"]", "(">>)
                /\ call.result.newSelection.end
                       <= call.selection.start + Len(LinkTemplate) - 1
           ELSE call.result.newText =
                    TextBefore(call) \o <<"[">> \o SelectedText(call)
                        \o <<"]", "(", "U", "R", "L", ")">> \o TextAfter(call)

\* C10, amended: on an empty selection the template [label](URL) is inserted
\* at the caret and the caret is left collapsed behind the closing
\* parenthesis; on a selection the text becomes [selected](URL), the caret
\* again behind the closing parenthesis.
C10_LinkCaretAfterTemplate ==
    (call.op = "insertLink" /\ WellFormed(call))
        => LET inserted == IF call.selection.start = call.selection.end
                           THEN LinkTemplate
                           ELSE <<"[">> \o SelectedText(call)
                                    \o <<"]", "(", "U", "R", "L", ")">>
               caret == call.selection.start + Len(inserted)
           IN  /\ call.result.newText = TextBefore(call) \o inserted \o TextAfter(call)
               /\ call.result.newSelection = Sel(caret, caret)
               /\ call.result.newText[caret] = ")"

\* The link operation at a caret in the middle of a text.
C10_Witness ==
    /\ call.op = "insertLink"
    /\ call.selection = Sel(1, 1)
    /\ Len(call.text) = 2


(***************************************************************************)
(* Properties of the interleaved operations (specification SpecAsync).     *)
(***************************************************************************)
\* The names a stored record holds; a damaged record holds none.
ItemKeys(item) ==
    IF item.present /\ item # DamagedItem
    THEN {item.entries[i][1] : i \in DOMAIN item.entries} ELSE {}
\* The task t enters an operation in this step, and the task t takes a step.
Starts(t) == tasks[t].pc = "idle" /\ tasks'[t].pc # "idle"
Steps(t) == tasks'[t] # tasks[t]
InHydration(task) ==
    \/ task.pc \in {"getFiles", "getFolders", "hydrate"}
    \/ task.pc = "saveFolders" /\ task.after = "initialize"

\* C23: once the guard is set, the initialize() of every operation that
\* starts returns at once: the operation is at its own code in the same
\* step, the two mappings, the guard and the two stored records are as they
\* were, and the operation never stands at a read of the snapshot, at the
\* assignments or at the save of initialize().
C23_InitializeIdempotent ==
    /\ [](\A t \in Tasks : tasks[t].hydration = "skipped" => ~InHydration(tasks[t]))
    /\ [][\A t \in Tasks :
             Starts(t) /\ initialized
                 => /\ tasks'[t].pc = "body"
                    /\ tasks'[t].hydration = "skipped"
                    /\ files' = files /\ folders' = folders
                    /\ filesItem' = filesItem /\ foldersItem' = foldersItem
                    /\ initialized']_vars
\* A writeFile that started under the set guard has reached its own save.
C23_Witness ==
    \E t \in Tasks :
        /\ tasks[t].hydration = "skipped"
        /\ tasks[t].op = "writeFile"
        /\ tasks[t].pc = "saveFolders"
        /\ initialized
        /\ MapHas(files, <<"a.md">>)

\* C25: a failed read or parse of the snapshot is not raised: the operation
\* goes on to its own code with the guard as it was, no operation ends with
\* an error but readFile with 'File not found', and under an unset guard the
\* next operation reads the snapshot again.
C25_HydrationFailureSwallowed ==
    /\ [](/\ \A t \in Tasks :
               /\ tasks[t].status = "ok"
               /\ tasks[t].hydration = "failed" => tasks[t].pc \in {"body", "saveFolders"}
          /\ last.status \in {"ok", "File not found"}
          /\ last.status = "File not found" => last.op = "readFile")
    /\ [][\A t \in Tasks :
             /\ tasks[t].hydration # "failed" /\ tasks'[t].hydration = "failed"
                    => tasks'[t].pc = "body" /\ initialized' = initialized
             /\ Starts(t) /\ ~initialized => tasks'[t].pc = "getFiles"]_vars
\* A writeFile has returned normally after its hydration failed, and the
\* guard is unset.
C25_Witness ==
    /\ seen.swallowed
    /\ last.op = "writeFile" /\ last.status = "ok"
    /\ ~initialized
    /\ \A t \in Tasks : tasks[t].pc = "idle"
    /\ MapHas(files, <<"a.md">>)

\* C26: under an unset guard every operation that starts goes on to read the
\* snapshot, and the assignments of a hydration replace the in-memory file
\* mapping by the record its operation read, whatever the mapping holds by
\* then.
C26_LaterHydrationReplaces ==
    [][\A t \in Tasks :
         /\ Starts(t) /\ ~initialized => tasks'[t].pc = "getFiles"
         /\ (/\ tasks[t].pc = "hydrate" /\ Steps(t)
             /\ tasks[t].filesJson.present /\ tasks[t].filesJson # DamagedItem)
                => DOMAIN files'.at = ItemKeys(tasks[t].filesJson)]_vars
\* With a working storage and undamaged records, every operation has
\* returned, and a file whose write has returned and that no deleteFile has
\* named since is neither in memory nor in the stored record.
C26_Witness ==
    /\ seen.fault = "none" /\ ~seen.damaged
    /\ \A t \in Tasks : tasks[t].pc = "idle"
    /\ filesItem.present
    /\ \E n \in seen.written :
          ~MapHas(files, n) /\ n \notin ItemKeys(filesItem)

\* C29 as stated: a step of an operation removes no folder from the stored
\* folder record and no file from the stored file record, but the file named
\* by the deleteFile that takes the step.
C29_NoOtherRecordRemovedAsStated ==
    [][/\ ItemKeys(foldersItem) \subseteq ItemKeys(foldersItem')
       /\ \A k \in ItemKeys(filesItem) \ ItemKeys(filesItem') :
             \E t \in Tasks :
                 Steps(t) /\ tasks[t].op = "deleteFile" /\ tasks[t].name = k]_vars


(***************************************************************************)
(* Properties of the editor screen (specification SpecEditor).             *)
(***************************************************************************)
\* C21 as stated: when writeFileContent settles and the storage write behind
\* it has failed, hasUnsavedChanges is as it was and the buffer is unchanged.
C21_FailedSaveKeepsFlagAsStated ==
    [][(editor.saving # <<>> /\ editor'.saving = <<>> /\ editor'.failedSave)
          => /\ editor'.hasUnsavedChanges = editor.hasUnsavedChanges
             /\ text' = text]_vars

\* C22 as stated: every address the last handler passed to the backend is
\* one the backend has returned.
C22_AddressesIssuedAsStated == editor.asked \subseteq editor.issued

\* C27 as stated: the selection a toolbar action passes to the helper lies
\* within the content it passes.
C27_ToolbarSelectionInRangeAsStated ==
    call.op # "none"
        => /\ 0 <= call.selection.start
           /\ call.selection.start <= call.selection.end
           /\ call.selection.end <= Len(call.text)

\* C28 as stated: when a file is selected and hasUnsavedChanges is false, the
\* buffer is the content of that file, as last read or written.
C28_CleanBufferIsFileAsStated ==
    (editor.backend # "none" /\ editor.selectedFileUri # Null
        /\ ~editor.hasUnsavedChanges)
        => text = editor.disk[editor.selectedFileUri]


(***************************************************************************)
(* Properties of the file explorer (specification SpecExplorer).           *)
(***************************************************************************)
\* C30 as stated: once refresh has been pressed over a cached root, the
\* listing of the root is eventually in the cache again, unless the user
\* presses a button of the explorer or picks another root first.
C30_RefreshReloadsAsStated ==
    explorer.refreshed
        ~> (~explorer.refreshed
               \/ explorer.rootUri \in DOMAIN explorer.folderContents)

====
